---- MODULE Spec2Model ----
(***************************************************************************)
(* A model of the Instagram media resolver (instagram.py) and of the       *)
(* concurrent file retrieval (main.py).                                    *)
(*                                                                         *)
(* Strings that the code inspects are sequences of tokens: a token is      *)
(* either one character of a character class the code tells apart, or a    *)
(* literal that the code searches for ("instagram.com", "https://",        *)
(* "graphql/query", "shortcode").  Python dictionaries are functions whose *)
(* DOMAIN is the set of keys present; an absent key is a key outside the   *)
(* DOMAIN.  A Python call either returns a value or raises: Return(v) and  *)
(* Raise(detail).                                                          *)
(***************************************************************************)
EXTENDS Integers, Sequences, FiniteSets, TLC

VARIABLES
    pc,             \* position of download_instagram_content
    url,            \* its argument
    branch,         \* the resolver it dispatched to
    shortcode,      \* Return(..)/Raise(..) of extract_shortcode in the primary path
    error_str,      \* str(e) in the handler of download_post_or_reel
    provider_calls, \* shortcodes passed to instaloader.Post.from_shortcode
    requests,       \* URLs passed to requests.get by _fetch_via_graphql
    http_response,  \* what that request produced
    result,         \* what download_instagram_content returned
    call,           \* the pure function applied last
    arg,            \* its argument
    ret,            \* its Return(..)/Raise(..)
    files_data,     \* argument of download_multiple_files
    downloads_dir,  \* its local of that name
    dl_pc,          \* position of download_multiple_files
    submitted,      \* number of futures created by executor.submit
    task,           \* state of each submitted download_file
    collected,      \* number of futures the result loop has gone through
    results         \* the results list of download_multiple_files

vars == <<pc, url, branch, shortcode, error_str, provider_calls, requests,
          http_response, result, call, arg, ret,
          files_data, downloads_dir, dl_pc, submitted, task, collected, results>>

resolverVars == <<pc, url, branch, shortcode, error_str, provider_calls,
                  requests, http_response, result>>
pureVars == <<call, arg, ret>>
downloadVars == <<files_data, downloads_dir, dl_pc, submitted, task, collected, results>>

-----------------------------------------------------------------------------
(* Python values *)

Return(v) == [raised |-> FALSE, value |-> v]
Raise(detail) == [raised |-> TRUE, detail |-> detail]

\* dict.get(key, default)
Get(d, key, default) == IF key \in DOMAIN d THEN d[key] ELSE default

\* the empty dict
EmptyDict == <<>>

SeqsUpTo(S, n) == UNION {[1..k -> S] : k \in 0..n}

\* s[i..j] occurs in s as the sequence pat, at position i
OccursAt(s, pat, i) ==
    /\ i >= 1
    /\ i + Len(pat) - 1 <= Len(s)
    /\ \A k \in 1..Len(pat) : s[i + k - 1] = pat[k]

\* Python's `pat in s`
Contains(s, pat) == \E i \in 1..(Len(s) + 1) : OccursAt(s, pat, i)

-----------------------------------------------------------------------------
(* Media Node Normalizer: _extract_responses_from_node *)

\* index of min(display_resources, key=config_height): the first minimal one
MinByHeight(display_resources) ==
    CHOOSE i \in 1..Len(display_resources) :
        /\ \A j \in 1..Len(display_resources) :
              display_resources[i].config_height <= display_resources[j].config_height
        /\ \A j \in 1..(i - 1) :
              display_resources[j].config_height > display_resources[i].config_height

\* max that keeps the last of the maximal variants
MaxByHeightLast(display_resources) ==
    CHOOSE i \in 1..Len(display_resources) :
        /\ \A j \in 1..Len(display_resources) :
              display_resources[i].config_height >= display_resources[j].config_height
        /\ \A j \in (i + 1)..Len(display_resources) :
              display_resources[j].config_height < display_resources[i].config_height

\* index of max(display_resources, key=config_height): the first maximal one
MaxByHeight(display_resources) ==
    CHOOSE i \in 1..Len(display_resources) :
        /\ \A j \in 1..Len(display_resources) :
              display_resources[i].config_height >= display_resources[j].config_height
        /\ \A j \in 1..(i - 1) :
              display_resources[j].config_height < display_resources[i].config_height

\* bool(node.get("is_video"))
IsVideo(node) == Get(node, "is_video", FALSE) = TRUE

ExtractResponsesFromNode(node) ==
    LET display_resources == Get(node, "display_resources", <<>>) IN
    IF Len(display_resources) = 0 THEN Return(<<>>)
    ELSE IF \E i \in 1..Len(display_resources) :
                "config_height" \notin DOMAIN display_resources[i]
    THEN Raise(<<"'config_height'">>)
    ELSE
      LET lowest == display_resources[MinByHeight(display_resources)]
          highest_res == display_resources[MaxByHeight(display_resources)]
      IN  IF "src" \notin DOMAIN lowest \/ "src" \notin DOMAIN highest_res
          THEN Raise(<<"'src'">>)
          ELSE IF "config_width" \notin DOMAIN highest_res
          THEN Raise(<<"'config_width'">>)
          ELSE Return(<<[preview |-> lowest.src,
                         type |-> IF IsVideo(node) THEN "video" ELSE "image",
                         url |-> Get(node, "video_url", highest_res.src),
                         width |-> highest_res.config_width,
                         height |-> highest_res.config_height]>>)

-----------------------------------------------------------------------------
(* Post Metadata Resolver: _process_post_data *)

\* the children taken last to first
PostsOfReversed(post_data) ==
    LET posts == IF "edge_sidecar_to_children" \in DOMAIN post_data
                 THEN post_data.edge_sidecar_to_children.edges
                 ELSE <<[node |-> post_data]>>
    IN  [i \in 1..Len(posts) |-> posts[Len(posts) + 1 - i]]

\* the list the loop of _process_post_data runs over
PostsOf(post_data) ==
    IF "edge_sidecar_to_children" \in DOMAIN post_data
    THEN post_data.edge_sidecar_to_children.edges
    ELSE <<[node |-> post_data]>>

\* the loop: responses.extend(...) for each post, stopping at the first raise
RECURSIVE ExtendAll(_, _, _)
ExtendAll(posts, i, responses) ==
    IF i > Len(posts) THEN Return(responses)
    ELSE LET r == ExtractResponsesFromNode(posts[i].node) IN
         IF r.raised THEN r
         ELSE ExtendAll(posts, i + 1, responses \o r.value)

Username(post_data) ==
    Get(Get(post_data, "owner", EmptyDict), "username", "unknown")

ProcessPostData(post_data, code) ==
    LET responses == ExtendAll(PostsOf(post_data), 1, <<>>) IN
    IF responses.raised THEN responses
    ELSE Return([status |-> "success",
                 message |-> <<"Downloaded post/reel ">> \o code,
                 username |-> Username(post_data),
                 data |-> responses.value])

-----------------------------------------------------------------------------------------------------------------------------------------------------
(* Identifier Extractor: parse_url, extract_shortcode *)

\* the tokens of a URL: the host literal, the two separators, the three
\* path words the code looks for, and any other character
UrlTokens == {"instagram.com", "/", "p", "reel", "stories", "?", "u"}

\* url.split("?")[0]
ParseUrl(u) ==
    IF \E i \in 1..Len(u) : u[i] = "?"
    THEN SubSeq(u, 1, (CHOOSE i \in 1..Len(u) :
                          u[i] = "?" /\ \A j \in 1..(i - 1) : u[j] # "?") - 1)
    ELSE u

\* the end of the longest run of tokens outside stop that starts at i
RECURSIVE RunEnd(_, _, _)
RunEnd(s, i, stop) ==
    IF i > Len(s) \/ s[i] \in stop THEN i - 1 ELSE RunEnd(s, i + 1, stop)

\* re.search(r"instagram.com/(?:p|reel)/([^/?]+)", u) matches at i
ShortcodeAt(u, i) ==
    /\ \/ OccursAt(u, <<"instagram.com", "/", "p", "/">>, i)
       \/ OccursAt(u, <<"instagram.com", "/", "reel", "/">>, i)
    /\ i + 4 <= Len(u)
    /\ u[i + 4] \notin {"/", "?"}

ExtractShortcode(u) ==
    IF \E i \in 1..Len(u) : ShortcodeAt(u, i)
    THEN LET i == CHOOSE k \in 1..Len(u) :
                      ShortcodeAt(u, k) /\ \A j \in 1..(k - 1) : ~ShortcodeAt(u, j)
         IN  Return(SubSeq(u, i + 4, RunEnd(u, i + 4, {"/", "?"})))
    ELSE Raise(<<"Could not extract shortcode from URL">>)

-----------------------------------------------------------------------------
(* Fallback Resolver: _fetch_via_graphql *)

\* the tokens of a failure message: the three literals the code searches
\* for, a quote, a whitespace character, and any other character
MsgTokens == {"https://", "graphql/query", "shortcode", "'", " ", "x"}

\* the characters that ["'\s] matches
UrlStop == {"'", " "}

\* r"(https://[^\"'\s]+graphql/query[^\"'\s]+)" matches at i
GraphqlUrlAt(s, i) ==
    /\ s[i] = "https://"
    /\ \E k \in (i + 2)..(RunEnd(s, i + 1, UrlStop) - 1) : s[k] = "graphql/query"

\* a search that keeps the last match
GraphqlUrlLastMatch(s) ==
    IF \E i \in 1..Len(s) : GraphqlUrlAt(s, i)
    THEN LET i == CHOOSE k \in 1..Len(s) :
                      GraphqlUrlAt(s, k) /\ \A j \in (k + 1)..Len(s) : ~GraphqlUrlAt(s, j)
         IN  [found |-> TRUE, group |-> SubSeq(s, i, RunEnd(s, i + 1, UrlStop))]
    ELSE [found |-> FALSE]

\* re.search: the leftmost match, each + taking as much as it can
GraphqlUrlMatch(s) ==
    IF \E i \in 1..Len(s) : GraphqlUrlAt(s, i)
    THEN LET i == CHOOSE k \in 1..Len(s) :
                      GraphqlUrlAt(s, k) /\ \A j \in 1..(k - 1) : ~GraphqlUrlAt(s, j)
         IN  [found |-> TRUE, group |-> SubSeq(s, i, RunEnd(s, i + 1, UrlStop))]
    ELSE [found |-> FALSE]

\* _fetch_via_graphql up to requests.get: it returns None, raises, or
\* issues the request
FetchViaGraphqlRequest(u, e) ==
    LET graphql_url_match == GraphqlUrlMatch(e) IN
    IF ~graphql_url_match.found THEN [kind |-> "none"]
    ELSE LET code == ExtractShortcode(u) IN
         IF code.raised THEN [kind |-> "raise", detail |-> code.detail]
         ELSE [kind |-> "get", url |-> graphql_url_match.group, code |-> code.value]

\* JSON values the code tests with `in`
JDict(d) == [t |-> "dict", v |-> d]
JNull == [t |-> "null"]

TypeError == <<"argument of type 'NoneType' is not iterable">>

\* _fetch_via_graphql from the response of requests.get on
FetchViaGraphqlResult(response, code) ==
    IF response.kind = "error" THEN Raise(response.detail)
    ELSE IF response.kind = "text" THEN Raise(<<"Expecting value">>)
    ELSE LET data == response.value IN
         IF data.t # "dict" THEN Raise(TypeError)
         ELSE IF "data" \notin DOMAIN data.v THEN Return([none |-> TRUE])
         ELSE IF data.v.data.t # "dict" THEN Raise(TypeError)
         ELSE IF "shortcode_media" \in DOMAIN data.v.data.v
         THEN LET r == ProcessPostData(data.v.data.v.shortcode_media,
                                       code \o <<" via GraphQL">>)
              IN  IF r.raised THEN r ELSE Return([none |-> FALSE, value |-> r.value])
         ELSE Return([none |-> TRUE])

-----------------------------------------------------------------------------
(* download_post_or_reel, download_stories, download_profile *)

ErrorEnvelope(message) == [status |-> "error", message |-> message, data |-> <<>>]

NoResult == [status |-> "none"]
NoResponse == [kind |-> "none"]

\* "graphql/query" in error_str and "shortcode" in error_str
FallbackTriggered(e) ==
    Contains(e, <<"graphql/query">>) /\ Contains(e, <<"shortcode">>)

\* a fallback without its try/except
InnerExceptReraise(inner_e) == Raise(inner_e)

\* a fallback failure reported like a primary one
InnerExceptOriginal(inner_e) == Return(ErrorEnvelope(inner_e))

\* except Exception as inner_e
InnerExcept(inner_e) ==
    Return(ErrorEnvelope(<<"Failed GraphQL fallback: ">> \o inner_e))

\* a handler that reports success when the fallback has no result
AfterFallbackSuccessOnly(r, e) ==
    IF r.raised THEN InnerExcept(r.detail)
    ELSE IF ~r.value.none THEN Return(r.value.value)
    ELSE Return([status |-> "success", message |-> e, username |-> "unknown",
                 data |-> <<>>])

\* the handler of download_post_or_reel once _fetch_via_graphql has ended
\* with r: its result if there is one, the fallback's failure if it raised,
\* and else the original error
AfterFallback(r, e) ==
    IF r.raised THEN InnerExcept(r.detail)
    ELSE IF ~r.value.none THEN Return(r.value.value)
    ELSE Return(ErrorEnvelope(e))

DownloadStories(loader, u) ==
    Return(ErrorEnvelope(<<"Stories download is not supported">>))

DownloadProfile(loader, u) ==
    Return(ErrorEnvelope(<<"Profile download is not supported">>))

InitializeLoader == Return("loader")

-----------------------------------------------------------------------------
(* Resolution Orchestrator: download_instagram_content *)

\* re.search(r"instagram.com/([^/?]+)", u)
UsernameAt(u, i) ==
    /\ OccursAt(u, <<"instagram.com", "/">>, i)
    /\ i + 2 <= Len(u)
    /\ u[i + 2] \notin {"/", "?"}

\* a chain that tests the query-stripped URL throughout
SelectBranchParsedOnly(u, parsed_url) ==
    IF \/ Contains(parsed_url, <<"instagram.com", "/", "p", "/">>)
       \/ Contains(parsed_url, <<"instagram.com", "/", "reel", "/">>)
    THEN "post"
    ELSE IF Contains(parsed_url, <<"instagram.com", "/", "stories", "/">>)
    THEN "stories"
    ELSE IF \E i \in 1..Len(parsed_url) : UsernameAt(parsed_url, i)
    THEN "profile"
    ELSE "unsupported"

\* the if/elif chain
SelectBranch(u, parsed_url) ==
    IF \/ Contains(u, <<"instagram.com", "/", "p", "/">>)
       \/ Contains(u, <<"instagram.com", "/", "reel", "/">>)
    THEN "post"
    ELSE IF Contains(parsed_url, <<"instagram.com", "/", "stories", "/">>)
    THEN "stories"
    ELSE IF \E i \in 1..Len(parsed_url) : UsernameAt(parsed_url, i)
    THEN "profile"
    ELSE "unsupported"

\* a callee ended with r: its value is returned, its exception propagates
Deliver(r) ==
    /\ pc' = IF r.raised THEN "raised" ELSE "done"
    /\ result' = IF r.raised THEN NoResult ELSE r.value

\* except Exception as e, up to the request of the fallback
Except(u, e) ==
    /\ error_str' = e
    /\ IF FallbackTriggered(e)
       THEN LET f == FetchViaGraphqlRequest(u, e) IN
            CASE f.kind = "none" ->
                   /\ Deliver(AfterFallback(Return([none |-> TRUE]), e))
                   /\ UNCHANGED requests
              [] f.kind = "raise" ->
                   /\ Deliver(AfterFallback(Raise(f.detail), e))
                   /\ UNCHANGED requests
              [] f.kind = "get" ->
                   /\ requests' = Append(requests, f.url)
                   /\ pc' = "http"
                   /\ UNCHANGED result
       ELSE /\ Deliver(Return(ErrorEnvelope(e)))
            /\ UNCHANGED requests

\* download_instagram_content(u), up to the end of the call or to the call
\* of the metadata provider
Start(urls) ==
    /\ pc = "idle"
    /\ \E u \in urls :
      LET parsed_url == ParseUrl(u)
          b == SelectBranch(u, parsed_url)
          loader == InitializeLoader
      IN
        /\ url' = u
        /\ UNCHANGED <<http_response, pureVars, downloadVars>>
        /\ IF loader.raised
           THEN /\ Deliver(loader)
                /\ UNCHANGED <<branch, shortcode, error_str, provider_calls, requests>>
           ELSE
             /\ branch' = b
             /\ CASE b = "post" ->
                       LET code == ExtractShortcode(parsed_url) IN
                       /\ shortcode' = code
                       /\ IF code.raised
                          THEN /\ Except(parsed_url, code.detail)
                               /\ UNCHANGED provider_calls
                          ELSE /\ provider_calls' = Append(provider_calls, code.value)
                               /\ pc' = "provider"
                               /\ UNCHANGED <<error_str, requests, result>>
                  [] b = "stories" ->
                       /\ Deliver(DownloadStories(loader.value, parsed_url))
                       /\ UNCHANGED <<shortcode, error_str, provider_calls, requests>>
                  [] b = "profile" ->
                       /\ Deliver(DownloadProfile(loader.value, parsed_url))
                       /\ UNCHANGED <<shortcode, error_str, provider_calls, requests>>
                  [] b = "unsupported" ->
                       /\ Deliver(Return(ErrorEnvelope(<<"Unsupported URL format">>)))
                       /\ UNCHANGED <<shortcode, error_str, provider_calls, requests>>

\* instaloader.Post.from_shortcode returns a post, which is normalized
ProviderReturns(posts) ==
    /\ pc = "provider"
    /\ \E post_data \in posts :
      LET r == ProcessPostData(post_data, shortcode.value) IN
        /\ IF r.raised
           THEN Except(ParseUrl(url), r.detail)
           ELSE /\ Deliver(r)
                /\ UNCHANGED <<error_str, requests>>
        /\ UNCHANGED <<url, branch, shortcode, provider_calls, http_response,
                       pureVars, downloadVars>>

\* instaloader.Post.from_shortcode raises
ProviderRaises(messages) ==
    /\ pc = "provider"
    /\ \E e \in messages :
        /\ Except(ParseUrl(url), e)
        /\ UNCHANGED <<url, branch, shortcode, provider_calls, http_response,
                       pureVars, downloadVars>>

\* requests.get raises, or returns a response that is then parsed and
\* normalized
HttpEnds(responses) ==
    /\ pc = "http"
    /\ \E response \in responses :
        /\ http_response' = response
        /\ Deliver(AfterFallback(
              FetchViaGraphqlResult(response, ExtractShortcode(ParseUrl(url)).value),
              error_str))
        /\ UNCHANGED <<url, branch, shortcode, error_str, provider_calls, requests,
                       pureVars, downloadVars>>

\* the caller takes the result; the next call starts afresh
Finish ==
    /\ pc \in {"done", "raised"}
    /\ pc' = "idle"
    /\ url' = <<>>
    /\ branch' = "none"
    /\ shortcode' = Raise(<<>>)
    /\ error_str' = <<>>
    /\ provider_calls' = <<>>
    /\ requests' = <<>>
    /\ http_response' = NoResponse
    /\ result' = NoResult
    /\ UNCHANGED <<pureVars, downloadVars>>

-----
(* Inputs of the normalizer *)

MaxVariants == 3
MaxHeight == 3
MaxChildren == 3

\* one resolution variant; its position in the list names its source, and
\* its width tells apart the variants of one height.  h = 0 stands for a
\* malformed variant that carries no height.
Variant(i, h) ==
    IF h = 0 THEN [src |-> <<"img", i>>, config_width |-> 10 * i]
    ELSE [src |-> <<"img", i>>, config_width |-> 10 * h + i, config_height |-> h]

VariantLists ==
    UNION {{[i \in 1..k |-> Variant(i, hs[i])] : hs \in [1..k -> 0..MaxHeight]} :
              k \in 0..MaxVariants}

VideoUrl == <<"vid", 0>>

\* raw nodes: each of the three optional fields present or absent
Nodes ==
    {[k \in ks |-> CASE k = "display_resources" -> dr
                     [] k = "is_video" -> iv
                     [] k = "video_url" -> VideoUrl] :
        ks \in SUBSET {"display_resources", "is_video", "video_url"},
        dr \in VariantLists, iv \in BOOLEAN}

\* the children of a carousel: without variants, with an empty list, an
\* image, a video with two variants, and a malformed one
ChildNodes ==
    {[is_video |-> FALSE],
     [display_resources |-> <<>>, is_video |-> FALSE],
     [display_resources |-> <<Variant(1, 2)>>, is_video |-> FALSE],
     [display_resources |-> <<Variant(1, 1), Variant(2, 2)>>,
      is_video |-> TRUE, video_url |-> VideoUrl],
     [display_resources |-> <<Variant(1, 0)>>]}

Owners == {[username |-> "alice"], EmptyDict}

\* post metadata: a single node or a carousel, with or without an owner
WithOwner(S) ==
    S \cup {[k \in DOMAIN n \cup {"owner"} |->
                IF k = "owner" THEN o ELSE n[k]] : n \in S, o \in Owners}

Carousels ==
    {[edge_sidecar_to_children |->
         [edges |-> [i \in 1..Len(c) |-> [node |-> c[i]]]]] :
        c \in SeqsUpTo(ChildNodes, MaxChildren)}

Posts == WithOwner(Nodes \cup Carousels)

Shortcodes == {<<"u">>, <<"p", "u">>}

-----------------------------------------------------------------------------------------------------------------------------------------------------
(* Retrieval Orchestrator: download_file, download_multiple_files *)

MaxWorkers == 5
MaxFiles == 6

\* get_downloads_dir()
GetDownloadsDir(is_mobile) == IF is_mobile THEN "~/Gallery" ELSE "~/Downloads"

FileInfo(i) == [url |-> <<"url", i>>, filename |-> <<"file", i>>]

\* the selections: distinct URLs, in the order selected
Batches == {[i \in 1..n |-> FileInfo(i)] : n \in 0..MaxFiles}

\* f"Error downloading {url}: {str(e)}"
ErrorString(u, detail) == <<"Error downloading ", u, ": ", detail>>

\* download_file: the saved path, or the error string of whatever was raised
DownloadFile(u, filename, save_dir, outcome) ==
    IF outcome = "ok" THEN Return(<<save_dir, filename>>)
    ELSE Return(ErrorString(u, outcome))

\* a loop that keeps the saved paths only
CollectedSavedOnly(rs, r, file_info) ==
    IF r.raised THEN Append(rs, ErrorString(file_info.url, r.detail))
    ELSE IF r.value[1] = "Error downloading " THEN rs
    ELSE Append(rs, r.value)

\* the body of the loop over the futures: the result of the future, or the
\* error string of the exception it raised, is appended
Collected(rs, r, file_info) ==
    IF r.raised THEN Append(rs, ErrorString(file_info.url, r.detail))
    ELSE Append(rs, r.value)

Running == {i \in 1..Len(task) : task[i].state = "running"}

\* download_multiple_files(files_data) is called
DownloadMultipleFiles ==
    /\ dl_pc = "idle"
    /\ \E fd \in Batches, is_mobile \in BOOLEAN :
        /\ files_data' = fd
        /\ downloads_dir' = GetDownloadsDir(is_mobile)
    /\ dl_pc' = "running"
    /\ submitted' = 0
    /\ task' = <<>>
    /\ collected' = 0
    /\ results' = <<>>
    /\ UNCHANGED <<resolverVars, pureVars>>

\* executor.submit(download_file, ...) for the next file
Submit ==
    /\ dl_pc = "running"
    /\ submitted < Len(files_data)
    /\ submitted' = submitted + 1
    /\ task' = Append(task, [state |-> "queued"])
    /\ UNCHANGED <<files_data, downloads_dir, dl_pc, collected, results,
                   resolverVars, pureVars>>

\* a worker of the pool takes the oldest queued work item
WorkerStart ==
    /\ Cardinality(Running) < MaxWorkers
    /\ \E i \in 1..Len(task) :
        /\ task[i].state = "queued"
        /\ \A j \in 1..(i - 1) : task[j].state # "queued"
        /\ task' = [task EXCEPT ![i] = [state |-> "running"]]
    /\ UNCHANGED <<files_data, downloads_dir, dl_pc, submitted, collected, results,
                   resolverVars, pureVars>>

\* a running download_file ends
TaskEnds ==
    \E i \in Running, outcome \in {"ok", "timed out"} :
        /\ task' = [task EXCEPT ![i] =
                       [state |-> "done",
                        outcome |-> outcome,
                        result |-> DownloadFile(files_data[i].url,
                                                files_data[i].filename,
                                                downloads_dir, outcome)]]
        /\ UNCHANGED <<files_data, downloads_dir, dl_pc, submitted, collected,
                       results, resolverVars, pureVars>>

\* the loop over the futures, in the order submitted: future.result() waits
Collect ==
    /\ dl_pc = "running"
    /\ submitted = Len(files_data)
    /\ collected < Len(files_data)
    /\ task[collected + 1].state = "done"
    /\ results' = Collected(results, task[collected + 1].result,
                            files_data[collected + 1])
    /\ collected' = collected + 1
    /\ UNCHANGED <<files_data, downloads_dir, dl_pc, submitted, task,
                   resolverVars, pureVars>>

\* the loop is over: the executor shuts down, waiting for its workers, and
\* the list is returned
ReturnResults ==
    /\ dl_pc = "running"
    /\ submitted = Len(files_data)
    /\ collected = Len(files_data)
    /\ \A i \in 1..Len(task) : task[i].state = "done"
    /\ dl_pc' = "returned"
    /\ UNCHANGED <<files_data, downloads_dir, submitted, task, collected, results,
                   resolverVars, pureVars>>

\* the caller takes the list
DlFinish ==
    /\ dl_pc = "returned"
    /\ dl_pc' = "idle"
    /\ files_data' = <<>>
    /\ downloads_dir' = "none"
    /\ submitted' = 0
    /\ task' = <<>>
    /\ collected' = 0
    /\ results' = <<>>
    /\ UNCHANGED <<resolverVars, pureVars>>

-----
(* The state before any call *)

Init ==
    /\ pc = "idle"
    /\ url = <<>>
    /\ branch = "none"
    /\ shortcode = Raise(<<>>)
    /\ error_str = <<>>
    /\ provider_calls = <<>>
    /\ requests = <<>>
    /\ http_response = NoResponse
    /\ result = NoResult
    /\ call = "none"
    /\ arg = <<>>
    /\ ret = Raise(<<>>)
    /\ files_data = <<>>
    /\ downloads_dir = "none"
    /\ dl_pc = "idle"
    /\ submitted = 0
    /\ task = <<>>
    /\ collected = 0
    /\ results = <<>>

-----------------------------------------------------------------------------
(* The normalizer and the post resolver applied to every input *)

CallExtractResponsesFromNode ==
    /\ call = "none"
    /\ \E node \in Nodes :
        /\ call' = "_extract_responses_from_node"
        /\ arg' = <<node>>
        /\ ret' = ExtractResponsesFromNode(node)
        /\ UNCHANGED <<resolverVars, downloadVars>>

CallProcessPostData ==
    /\ call = "none"
    /\ \E post_data \in Posts, code \in Shortcodes :
        /\ call' = "_process_post_data"
        /\ arg' = <<post_data, code>>
        /\ ret' = ProcessPostData(post_data, code)
        /\ UNCHANGED <<resolverVars, downloadVars>>

\* the value is handed to the caller and dropped
Discard ==
    /\ call # "none"
    /\ call' = "none"
    /\ arg' = <<>>
    /\ ret' = Raise(<<>>)
    /\ UNCHANGED <<resolverVars, downloadVars>>

NextPure == CallExtractResponsesFromNode \/ CallProcessPostData \/ Discard

SpecPure == Init /\ [][NextPure]_vars

-----------------------------------------------------------------------------------------------------------------------------------------------------
(* Inputs of the resolver *)

MaxPathLen == 5
MaxMsgLen == 5

PathTokens == {"/", "p", "reel", "stories", "u"}

\* query strings: none, a plain one, and ones that hold the literals the
\* orchestrator searches for
Queries ==
    {<<>>,
     <<"?", "u">>,
     <<"?", "instagram.com", "/", "p", "/", "u">>,
     <<"?", "instagram.com", "/", "reel", "/">>,
     <<"?", "instagram.com", "/", "stories", "/">>}

\* the host followed by a path and a query string
Urls ==
    {<<"instagram.com">> \o path \o query :
        path \in SeqsUpTo(PathTokens, MaxPathLen), query \in Queries}

PostUrls ==
    {<<"instagram.com", "/", "p", "/", "u">>,
     <<"instagram.com", "/", "reel", "/", "u", "p", "/", "?", "u">>}

\* every failure message of up to MaxMsgLen tokens
Messages == SeqsUpTo(MsgTokens, MaxMsgLen)

SomeMessages ==
    {<<"x">>,
     <<"https://", "x", "graphql/query", "x", "shortcode">>,
     <<"graphql/query", " ", "shortcode">>,
     <<"https://", "x", "graphql/query", "x">>}

\* what the provider or the fallback endpoint may hold: an image with an
\* owner, a carousel without one, and a node with a malformed variant
ResolverPosts ==
    {[display_resources |-> <<Variant(1, 1), Variant(2, 2)>>,
      is_video |-> FALSE, owner |-> [username |-> "alice"]],
     [edge_sidecar_to_children |->
         [edges |-> <<[node |-> [display_resources |-> <<Variant(1, 2)>>,
                                 is_video |-> TRUE, video_url |-> VideoUrl]],
                      [node |-> [is_video |-> FALSE]]>>]],
     [display_resources |-> <<Variant(1, 0)>>]}

\* the data objects: each of the two field names absent or holding a post,
\* and one that holds another field only
DataDicts ==
    {[k \in ks |-> IF k = "shortcode_media" THEN a ELSE b] :
        ks \in SUBSET {"shortcode_media", "xdt_shortcode_media"},
        a \in ResolverPosts, b \in ResolverPosts}
    \cup {[user |-> JNull]}

\* the outcomes of requests.get and response.json()
Responses ==
    {[kind |-> "error", detail |-> <<"Connection refused">>],
     [kind |-> "text"],
     [kind |-> "json", value |-> JNull],
     [kind |-> "json", value |-> JDict(EmptyDict)],
     [kind |-> "json", value |-> JDict([status |-> JNull])],
     [kind |-> "json", value |-> JDict([data |-> JNull])]}
    \cup {[kind |-> "json", value |-> JDict([data |-> JDict(d)])] : d \in DataDicts}

\* every URL, a few provider failures
Next ==
    \/ Start(Urls)
    \/ ProviderReturns(ResolverPosts)
    \/ ProviderRaises(SomeMessages)
    \/ HttpEnds(Responses)
    \/ Finish

Spec == Init /\ [][Next]_vars

\* a few post URLs, every provider failure
NextFallback ==
    \/ Start(PostUrls)
    \/ ProviderReturns(ResolverPosts)
    \/ ProviderRaises(Messages)
    \/ HttpEnds(Responses)
    \/ Finish

SpecFallback == Init /\ [][NextFallback]_vars

NextDownload ==
    \/ DownloadMultipleFiles
    \/ Submit
    \/ WorkerStart
    \/ TaskEnds
    \/ Collect
    \/ ReturnResults
    \/ DlFinish

SpecDownload == Init /\ [][NextDownload]_vars

-----
(* C8 *)

WellFormed(node) ==
    \A i \in 1..Len(Get(node, "display_resources", <<>>)) :
        "config_height" \in DOMAIN node.display_resources[i]

\* C8: a node with a non-empty variant list yields exactly one descriptor:
\* preview is the source of the first variant of minimum height, width and
\* height are those of the first variant of maximum height, url is the
\* node's video URL if present and else the source of that maximum variant,
\* and the kind is video iff the video flag is true; a node with an empty or
\* absent variant list yields no descriptor.
C8_Normalizer ==
    (call = "_extract_responses_from_node" /\ WellFormed(arg[1])) =>
        LET node == arg[1]
            dr == Get(node, "display_resources", <<>>)
        IN  /\ ~ret.raised
            /\ Len(dr) = 0 => ret.value = <<>>
            /\ Len(dr) > 0 =>
                 /\ Len(ret.value) = 1
                 /\ \E lo \in 1..Len(dr), hi \in 1..Len(dr) :
                      /\ \A j \in 1..Len(dr) :
                            /\ dr[lo].config_height <= dr[j].config_height
                            /\ dr[hi].config_height >= dr[j].config_height
                            /\ j < lo => dr[j].config_height # dr[lo].config_height
                            /\ j < hi => dr[j].config_height # dr[hi].config_height
                      /\ ret.value[1].preview = dr[lo].src
                      /\ ret.value[1].width = dr[hi].config_width
                      /\ ret.value[1].height = dr[hi].config_height
                      /\ ret.value[1].url =
                            (IF "video_url" \in DOMAIN node
                             THEN node.video_url ELSE dr[hi].src)
                      /\ (ret.value[1].type = "video") <=>
                            ("is_video" \in DOMAIN node /\ node.is_video)
                      /\ ret.value[1].type \in {"video", "image"}

\* a video node whose first two variants tie for the maximum height and
\* whose last variant is the smallest
C8_Witness ==
    /\ call = "_extract_responses_from_node"
    /\ WellFormed(arg[1])
    /\ "display_resources" \in DOMAIN arg[1]
    /\ Len(arg[1].display_resources) = 3
    /\ arg[1].display_resources[1].config_height = 2
    /\ arg[1].display_resources[2].config_height = 2
    /\ arg[1].display_resources[3].config_height = 1
    /\ "video_url" \in DOMAIN arg[1]
    /\ IsVideo(arg[1])
    /\ ~ret.raised
    /\ ret.value[1].preview = <<"img", 3>>
    /\ ret.value[1].width = 21
    /\ ret.value[1].url = VideoUrl

-----------------------------------------------------------------------------
(* C9 *)

RECURSIVE Concat(_)
Concat(ss) == IF Len(ss) = 0 THEN <<>> ELSE Head(ss) \o Concat(Tail(ss))

HasVariants(node) == Len(Get(node, "display_resources", <<>>)) > 0

\* the units of a post: its carousel children, or the post itself when it
\* holds no carousel collection
Units(post_data) ==
    IF "edge_sidecar_to_children" \in DOMAIN post_data
    THEN [i \in 1..Len(post_data.edge_sidecar_to_children.edges) |->
             post_data.edge_sidecar_to_children.edges[i].node]
    ELSE <<post_data>>

\* C9: the data of the success envelope is the concatenation, in child
\* order, of the descriptors of the units; units without variants are
\* skipped, so there are as many descriptors as units with variants; the
\* username is that of the top-level owner, or "unknown".
C9_ProcessPostData ==
    (call = "_process_post_data"
        /\ \A i \in 1..Len(Units(arg[1])) : WellFormed(Units(arg[1])[i])) =>
        LET units == Units(arg[1]) IN
        /\ ~ret.raised
        /\ ret.value.status = "success"
        /\ ret.value.message = <<"Downloaded post/reel ">> \o arg[2]
        /\ ret.value.data =
              Concat([i \in 1..Len(units) |->
                         ExtractResponsesFromNode(units[i]).value])
        /\ Len(ret.value.data) =
              Cardinality({i \in 1..Len(units) : HasVariants(units[i])})
        /\ ret.value.username =
              (IF "owner" \in DOMAIN arg[1] /\ "username" \in DOMAIN arg[1].owner
               THEN arg[1].owner.username ELSE "unknown")

\* a carousel of three children, the second without variants, whose first
\* and third descriptors differ
C9_Witness ==
    /\ call = "_process_post_data"
    /\ "edge_sidecar_to_children" \in DOMAIN arg[1]
    /\ Len(Units(arg[1])) = 3
    /\ HasVariants(Units(arg[1])[1])
    /\ ~HasVariants(Units(arg[1])[2])
    /\ HasVariants(Units(arg[1])[3])
    /\ \A i \in 1..3 : WellFormed(Units(arg[1])[i])
    /\ "owner" \notin DOMAIN arg[1]
    /\ ~ret.raised
    /\ Len(ret.value.data) = 2
    /\ ret.value.data[1].type = "video"
    /\ ret.value.data[2].type = "image"
    /\ ret.value.username = "unknown"

-----------------------------------------------------------------------------
(* C6 *)

\* where the query string of u starts: the first "?", or past the end
QueryStart(u) ==
    IF \E i \in 1..Len(u) : u[i] = "?"
    THEN CHOOSE i \in 1..Len(u) : u[i] = "?" /\ \A j \in 1..(i - 1) : u[j] # "?"
    ELSE Len(u) + 1

\* pat occurs in u before the query string
InStripped(u, pat) ==
    \E i \in 1..Len(u) : OccursAt(u, pat, i) /\ i + Len(pat) - 1 < QueryStart(u)

PostMarked(u) ==
    \E i \in 1..Len(u) :
        \/ OccursAt(u, <<"instagram.com", "/", "p", "/">>, i)
        \/ OccursAt(u, <<"instagram.com", "/", "reel", "/">>, i)

StoriesMarked(u) == InStripped(u, <<"instagram.com", "/", "stories", "/">>)

ProfileMarked(u) ==
    \E i \in 1..Len(u) :
        /\ OccursAt(u, <<"instagram.com", "/">>, i)
        /\ i + 2 < QueryStart(u)
        /\ u[i + 2] # "/"

\* C6 as amended: exactly one branch is taken: post/reel when the URL as
\* given (query string included) contains "instagram.com/p/" or
\* "instagram.com/reel/"; else stories when the query-stripped URL contains
\* "instagram.com/stories/"; else profile when the query-stripped URL
\* contains "instagram.com/" followed by a character other than "/"; else
\* the call returns the error "Unsupported URL format".
C6_BranchSelection ==
    pc # "idle" =>
        /\ branch \in {"post", "stories", "profile", "unsupported"}
        /\ (branch = "post") <=> PostMarked(url)
        /\ (branch = "stories") <=> (~PostMarked(url) /\ StoriesMarked(url))
        /\ (branch = "profile") <=>
              (~PostMarked(url) /\ ~StoriesMarked(url) /\ ProfileMarked(url))
        /\ branch = "unsupported" =>
              (pc = "done" /\ result = ErrorEnvelope(<<"Unsupported URL format">>))
        /\ branch = "stories" =>
              (pc = "done"
                 /\ result = ErrorEnvelope(<<"Stories download is not supported">>))
        /\ branch = "profile" =>
              (pc = "done"
                 /\ result = ErrorEnvelope(<<"Profile download is not supported">>))
        /\ branch # "post" => (provider_calls = <<>> /\ requests = <<>>)

\* a stories URL whose query string holds "instagram.com/p/" is taken for a
\* post
C6_Witness ==
    /\ pc = "done"
    /\ url = <<"instagram.com", "/", "stories", "/", "u",
               "?", "instagram.com", "/", "p", "/", "u">>
    /\ branch = "post"
    /\ result.status = "error"

\* C6 as claimed: post/reel when the URL contains /p/ or /reel/, else stories
\* when the query-stripped URL contains /stories/, else profile when the
\* query-stripped URL has a non-empty first path segment, else unsupported.
C6_AsClaimed ==
    (pc # "idle" /\ OccursAt(url, <<"instagram.com", "/">>, 1)
        /\ ~Contains(url, <<"/", "/">>)) =>
        branch =
          IF Contains(url, <<"/", "p", "/">>) \/ Contains(url, <<"/", "reel", "/">>)
          THEN "post"
          ELSE IF InStripped(url, <<"/", "stories", "/">>) THEN "stories"
          ELSE IF /\ 3 < QueryStart(url)
                  /\ url[2] = "/"
                  /\ url[3] # "/"
          THEN "profile"
          ELSE "unsupported"

-----------------------------------------------------------------------------
(* C4 *)

\* instagram.com/stories/..., with or without a query string
StoriesUrl(u) == OccursAt(u, <<"instagram.com", "/", "stories", "/">>, 1)
                    /\ 4 < QueryStart(u)

\* instagram.com/<name> or instagram.com/<name>/, with or without a query
\* string, where <name> is none of the words p, reel and stories
BareProfileUrl(u) ==
    LET q == QueryStart(u)
        e == RunEnd(u, 3, {"/", "?"})
    IN  /\ OccursAt(u, <<"instagram.com", "/">>, 1)
        /\ e >= 3
        /\ e < q
        /\ e = q - 1 \/ (e = q - 2 /\ u[e + 1] = "/")
        /\ SubSeq(u, 3, e) \notin {<<"p">>, <<"reel">>, <<"stories">>}

\* C4 as claimed: every stories URL and every bare profile URL yields the
\* error "Stories download is not supported", respectively "Profile download
\* is not supported", without any call of the metadata provider or of HTTP.
C4_AsClaimed ==
    pc # "idle" =>
        /\ StoriesUrl(url) =>
              /\ pc = "done"
              /\ result = ErrorEnvelope(<<"Stories download is not supported">>)
              /\ provider_calls = <<>>
              /\ requests = <<>>
        /\ BareProfileUrl(url) =>
              /\ pc = "done"
              /\ result = ErrorEnvelope(<<"Profile download is not supported">>)
              /\ provider_calls = <<>>
              /\ requests = <<>>

-----------------------------------------------------------------------------
(* C5 *)

IsSequence(x) == DOMAIN x = 1..Len(x)

\* C5: whatever the URL, the provider and the fallback endpoint do, the call
\* never ends with an exception; what it returns has a status that is
\* success or error, a message and a data list.
C5_AlwaysEnvelope ==
    /\ pc \in {"idle", "provider", "http", "done"}
    /\ pc = "done" =>
          /\ result.status \in {"success", "error"}
          /\ {"message", "data"} \subseteq DOMAIN result
          /\ IsSequence(result.message)
          /\ IsSequence(result.data)

\* the fallback endpoint answered with a post whose variant is malformed
C5_Witness ==
    /\ pc = "done"
    /\ Len(requests) = 1
    /\ http_response.kind = "json"
    /\ http_response.value.t = "dict"
    /\ "data" \in DOMAIN http_response.value.v
    /\ http_response.value.v.data.t = "dict"
    /\ "shortcode_media" \in DOMAIN http_response.value.v.data.v
    /\ ~WellFormed(http_response.value.v.data.v.shortcode_media)
    /\ result.status = "error"

-----------------------------------------------------------------------------
(* C1 *)

\* s[i..j] is an embedded URL: "https://", one character or more,
\* "graphql/query", one character or more, none of them a quote or a
\* whitespace, and s[j] is the last character before a quote, a whitespace
\* or the end of s
EmbeddedUrl(s, i, j) ==
    /\ 1 <= i /\ j <= Len(s)
    /\ s[i] = "https://"
    /\ \E k \in (i + 2)..(j - 1) : s[k] = "graphql/query"
    /\ \A m \in (i + 1)..j : s[m] \notin UrlStop
    /\ j = Len(s) \/ s[j + 1] \in UrlStop

\* C1 as amended: a fallback request is issued iff the failure message
\* contains the word "shortcode" and an embedded URL https://..graphql/query..
\* (with at least one character before and after graphql/query); then there
\* is exactly one request, and it goes to the leftmost such URL, taken up to
\* the next quote or whitespace.  Otherwise no request is issued.
C1_FallbackRequest ==
    /\ pc \in {"idle", "provider"} => requests = <<>>
    /\ pc \in {"http", "done"} =>
         IF /\ Contains(error_str, <<"shortcode">>)
            /\ \E i, j \in 1..Len(error_str) : EmbeddedUrl(error_str, i, j)
         THEN /\ Len(requests) = 1
              /\ \E i, j \in 1..Len(error_str) :
                    /\ EmbeddedUrl(error_str, i, j)
                    /\ requests[1] = SubSeq(error_str, i, j)
                    /\ \A ii \in 1..(i - 1), jj \in 1..Len(error_str) :
                          ~EmbeddedUrl(error_str, ii, jj)
         ELSE requests = <<>>

\* the request went to a URL that is a proper part of the message
C1_Witness ==
    /\ pc = "done"
    /\ Len(requests) = 1
    /\ Len(requests[1]) < Len(error_str)
    /\ http_response.kind = "json"

\* C1 as claimed: a message that contains an HTTPS URL whose path includes
\* graphql/query leads to exactly one request, to that URL; a message
\* without one leads to none.
C1_AsClaimed ==
    pc \in {"http", "done"} =>
        IF \E i, j \in 1..Len(error_str) : EmbeddedUrl(error_str, i, j)
        THEN /\ Len(requests) = 1
             /\ \E i, j \in 1..Len(error_str) :
                   /\ EmbeddedUrl(error_str, i, j)
                   /\ requests[1] = SubSeq(error_str, i, j)
        ELSE requests = <<>>

-----------------------------------------------------------------------------
(* C3, C10, C2 *)

IsJsonDict(response) ==
    response.kind = "json" /\ response.value.t = "dict"

HasDataDict(response) ==
    /\ IsJsonDict(response)
    /\ "data" \in DOMAIN response.value.v
    /\ response.value.v.data.t = "dict"

DataOf(response) == response.value.v.data.v

\* the response has no top-level data field, or data holds neither
\* shortcode_media nor xdt_shortcode_media
NoPostNode(response) ==
    \/ IsJsonDict(response) /\ "data" \notin DOMAIN response.value.v
    \/ /\ HasDataDict(response)
       /\ DOMAIN DataOf(response) \cap {"shortcode_media", "xdt_shortcode_media"} = {}

\* C3: when the fallback request was made and its response holds no post
\* node, the call returns the error envelope whose message is the original
\* failure message, with empty data.
C3_OriginalError ==
    (pc = "done" /\ requests # <<>> /\ NoPostNode(http_response)) =>
        result = [status |-> "error", message |-> error_str, data |-> <<>>]

\* the response held a data object with another field only
C3_Witness ==
    /\ pc = "done"
    /\ requests # <<>>
    /\ HasDataDict(http_response)
    /\ DOMAIN DataOf(http_response) = {"user"}
    /\ result.status = "error"
    /\ result.message = error_str

AllWellFormed(post_data) ==
    \A i \in 1..Len(Units(post_data)) : WellFormed(Units(post_data)[i])

\* the step of the fallback that raises, with the message of its exception
FallbackRaises(response, detail) ==
    \/ response.kind = "error" /\ detail = response.detail
    \/ response.kind = "text" /\ detail = <<"Expecting value">>
    \/ /\ response.kind = "json"
       /\ response.value.t = "null"
       /\ detail = TypeError
    \/ /\ IsJsonDict(response)
       /\ "data" \in DOMAIN response.value.v
       /\ response.value.v.data.t = "null"
       /\ detail = TypeError
    \/ /\ HasDataDict(response)
       /\ "shortcode_media" \in DOMAIN DataOf(response)
       /\ ~AllWellFormed(DataOf(response).shortcode_media)
       /\ detail = <<"'config_height'">>

\* C10 as amended: when a step of the fallback raises, the call returns the
\* error "Failed GraphQL fallback: <detail>"; the primary failure is
\* returned as it is, without that prefix.
C10_FallbackError ==
    pc = "done" =>
        /\ \A detail \in {<<"Connection refused">>, <<"Expecting value">>,
                         TypeError, <<"'config_height'">>} :
              (requests # <<>> /\ FallbackRaises(http_response, detail)) =>
                  result = [status |-> "error",
                            message |-> <<"Failed GraphQL fallback: ">> \o detail,
                            data |-> <<>>]
        /\ (result.status = "error" /\ error_str # <<>> /\ requests = <<>>) =>
              result.message = error_str

\* the response was not JSON
C10_Witness ==
    /\ pc = "done"
    /\ requests # <<>>
    /\ http_response.kind = "text"
    /\ result.message = <<"Failed GraphQL fallback: ", "Expecting value">>

\* C10 as claimed: the message is "Failed fallback: <detail>"
C10_AsClaimed ==
    pc = "done" =>
        \A detail \in {<<"Connection refused">>, <<"Expecting value">>,
                       TypeError, <<"'config_height'">>} :
            (requests # <<>> /\ FallbackRaises(http_response, detail)) =>
                result = [status |-> "error",
                          message |-> <<"Failed fallback: ">> \o detail,
                          data |-> <<>>]

\* C2 as claimed: a response that holds the post node N under
\* xdt_shortcode_media gives the result that the response holding N under
\* shortcode_media gives: the success envelope of N.
C2_AsClaimed ==
    (/\ pc = "done"
     /\ requests # <<>>
     /\ HasDataDict(http_response)
     /\ DOMAIN DataOf(http_response) = {"xdt_shortcode_media"}
     /\ AllWellFormed(DataOf(http_response).xdt_shortcode_media)) =>
        LET N == DataOf(http_response).xdt_shortcode_media
            twin == [kind |-> "json",
                     value |-> JDict([data |-> JDict([shortcode_media |-> N])])]
            same == AfterFallback(
                        FetchViaGraphqlResult(twin, shortcode.value), error_str)
        IN  /\ result = same.value
            /\ result.status = "success"

-----------------------------------------------------------------------------
(* C7 *)

\* C7: whatever downloads fail, every file of the batch is downloaded or
\* has failed when the call returns, and the list returned has one entry per
\* file, in the order submitted: the saved path of the file if its download
\* succeeded, the error string of the file if it failed.
C7_FailuresIsolated ==
    /\ dl_pc \in {"idle", "running", "returned"}
    /\ Cardinality(Running) <= MaxWorkers
    /\ dl_pc = "returned" =>
         /\ Len(task) = Len(files_data)
         /\ Len(results) = Len(files_data)
         /\ \A i \in 1..Len(files_data) :
              /\ task[i].state = "done"
              /\ task[i].outcome = "ok" =>
                    results[i] = <<downloads_dir, files_data[i].filename>>
              /\ task[i].outcome # "ok" =>
                    results[i] = <<"Error downloading ", files_data[i].url, ": ",
                                   task[i].outcome>>

\* more files than workers, the first and the last but one failed, the
\* others were saved
C7_Witness ==
    /\ dl_pc = "returned"
    /\ Len(files_data) > MaxWorkers
    /\ task[1].outcome # "ok"
    /\ task[2].outcome = "ok"
    /\ task[Len(task) - 1].outcome # "ok"
    /\ task[Len(task)].outcome = "ok"
    /\ Len(results) = Len(files_data)

====
